---- MODULE Spec2Model ----
(***************************************************************************)
(* Model of quantum-applications-to-finance/solutions/01_solutions.ipynb:  *)
(* the decrementer matrix, the kernels initial_position,                   *)
(* check_decrementer_kernel and DTQW_one_step, shot sampling, and the      *)
(* execution of the notebook's cells.                                      *)
(*                                                                         *)
(* Amplitudes are exact: a state is a sparse map from basis states to      *)
(* non-zero integers, and the real amplitude is psi[b] / sqrt(2)^hexp,     *)
(* where hexp counts the Hadamard gates applied so far.                    *)
(***************************************************************************)
EXTENDS Integers, Sequences, FiniteSets, TLC

VARIABLES
    \* decrementer(num_qubits) and the use of its result as an operator
    dn, size, dec_matrix, loop_i, dpc, vec, start, napps,
    \* a kernel run and cudaq.sample
    kern, pc, psi, hexp, ops, in0, pre, counts, shots,
    \* the notebook session
    ns, runs, errs

decVars == <<dn, size, dec_matrix, loop_i, dpc, vec, start, napps>>
kerVars == <<kern, pc, psi, hexp, ops, in0, pre, counts, shots>>
nbVars  == <<ns, runs, errs>>
vars    == <<decVars, kerVars, nbVars>>

----------------------------------------------------------------------------
(* Bounds *)

\* largest num_qubits passed to decrementer
MaxQubits == 4

\* most cell executions in one notebook session
MaxRuns == 4

----------------------------------------------------------------------------
(* Arithmetic helpers *)

RECURSIVE Pow2(_)
Pow2(k) == IF k = 0 THEN 1 ELSE 2 * Pow2(k - 1)

RECURSIVE SumOver(_, _)
\* sum of f[x] over the finite set S
SumOver(S, f) ==
    IF S = {} THEN 0
    ELSE LET x == CHOOSE y \in S : TRUE IN f[x] + SumOver(S \ {x}, f)

----------------------------------------------------------------------------
(* decrementer(num_qubits) *)

\* np.zeros((size, size))
Zeros(sz) == [r \in 0..(sz - 1) |-> [c \in 0..(sz - 1) |-> 0]]

\* a wrong column: clamps at the last column instead of wrapping around
DecColClamp(i, sz) == IF i + 1 < sz THEN i + 1 ELSE sz - 1

\* a wrong column: wraps the other way (an incrementer)
DecColUp(i, sz) == (i + sz - 1) % sz

\* the column written in row i: (i + 1) % size
DecCol(i, sz) == (i + 1) % sz

\* m[r, c] = 1; an index outside the array writes nothing
SetOne(m, r, c) ==
    [rr \in DOMAIN m |-> [cc \in DOMAIN m[rr] |->
        IF rr = r /\ cc = c THEN 1 ELSE m[rr][cc]]]

\* the finished matrix, as the loop builds it
RECURSIVE DecFill(_, _, _)
DecFill(m, i, sz) ==
    IF i >= sz THEN m ELSE DecFill(SetOne(m, i, DecCol(i, sz)), i + 1, sz)

decrementer(nq) == DecFill(Zeros(Pow2(nq)), 0, Pow2(nq))

\* the basis column vector e_i of dimension sz
BasisVec(i, sz) == [r \in 0..(sz - 1) |-> IF r = i THEN 1 ELSE 0]

\* the matrix applied as a linear operator to a column vector
MatVec(m, v) ==
    [r \in DOMAIN m |-> SumOver(DOMAIN v, [c \in DOMAIN v |-> m[r][c] * v[c]])]

----------------------------------------------------------------------------
(* Registers, basis states and gates *)

\* num_qubits = 4
num_qubits == 4

\* shots_count=1000
shots_count == 1000

\* cudaq.register_operation("DEC", decrementer(num_qubits))
DEC == decrementer(num_qubits)

\* A basis state of walker_qubits (w, qubits[0] the most significant bit),
\* coin_qubit (c) and endpoint_qubit (e).  env holds the values the endpoint
\* qubit had when it was reset: a reset discards them, it does not undo them.
BasisState(w, c, e) == [w |-> w, c |-> c, e |-> e, env |-> <<>>]

\* cudaq.qvector(n), cudaq.qubit(): every qubit starts in |0>
AllZero == BasisState(0, 0, 0) :> 1

\* amplitude numerator of basis state b
Amp(p, b) == IF b \in DOMAIN p THEN p[b] ELSE 0

\* the value of qubits[q] in walker value w
QBit(w, q) == (w \div Pow2(num_qubits - 1 - q)) % 2

\* walker value w with qubits[q] set to v
SetQBit(w, q, v) == w + (v - QBit(w, q)) * Pow2(num_qubits - 1 - q)

\* the measured bitstring of a walker value, qubits[0] first
Bits(w) == [q \in 1..num_qubits |-> QBit(w, q - 1)]

\* a gate is given by its columns: Col(b) maps each basis state the gate
\* sends b to onto the matrix entry; the new state sums the columns
ApplyGate(Col(_), p) ==
    LET tgt == UNION {DOMAIN Col(x) : x \in DOMAIN p}
        val(b) == SumOver(DOMAIN p,
                     [x \in DOMAIN p |->
                        IF b \in DOMAIN Col(x) THEN Col(x)[b] * p[x] ELSE 0])
    IN  [b \in {t \in tgt : val(t) # 0} |-> val(b)]

\* x(qubits[q])
XWalker(q, b) == [b EXCEPT !.w = SetQBit(b.w, q, 1 - QBit(b.w, q))] :> 1

\* h(qubits[q]), entries times sqrt(2)
HWalker(q, b) ==
    ([b EXCEPT !.w = SetQBit(b.w, q, 0)] :> 1) @@
    ([b EXCEPT !.w = SetQBit(b.w, q, 1)] :> (IF QBit(b.w, q) = 1 THEN -1 ELSE 1))

\* h(coin_qubit), entries times sqrt(2)
HCoin(b) ==
    ([b EXCEPT !.c = 0] :> 1) @@
    ([b EXCEPT !.c = 1] :> (IF b.c = 1 THEN -1 ELSE 1))

\* a kernel's state: amplitude numerators and the Hadamard count
Gate(Col(_), s) == [psi |-> ApplyGate(Col, s.psi), hexp |-> s.hexp]

\* the same for a gate whose entries carry a factor 1/sqrt(2)
GateH(Col(_), s) == [psi |-> ApplyGate(Col, s.psi), hexp |-> s.hexp + 1]

\* initial_position with the two qubits exchanged
initial_position_swapped(s) ==
    GateH(LAMBDA b : HWalker(2, b), Gate(LAMBDA b : XWalker(3, b), s))

\* initial_position(qubits): x(qubits[2]); h(qubits[3])
initial_position(s) ==
    GateH(LAMBDA b : HWalker(3, b), Gate(LAMBDA b : XWalker(2, b), s))

\* the initial coin state with its h commented out
initial_coin_state_off(s) == s

\* h(coin_qubit), the initial coin state
initial_coin_state(s) == GateH(HCoin, s)

\* h(coin_qubit), the coin operation F=H
coin_operation(s) == GateH(HCoin, s)

\* x(coin_qubit) left out
XCoinMissing(b) == b :> 1

\* x(coin_qubit)
XCoin(b) == [b EXCEPT !.c = 1 - b.c] :> 1

\* the matrix applied transposed
MatWalkerT(m, b) ==
    [t \in {[b EXCEPT !.w = r] : r \in {rr \in DOMAIN m : m[b.w][rr] # 0}}
        |-> m[b.w][t.w]]

\* a registered matrix applied to (qubits[0], qubits[1], qubits[2], qubits[3])
MatWalker(m, b) ==
    [t \in {[b EXCEPT !.w = r] : r \in {rr \in DOMAIN m : m[rr][b.w] # 0}}
        |-> m[t.w][b.w]]

\* DEC applied without its control
DECnoctrl(b) == MatWalker(DEC, b)

\* DEC.ctrl(coin_qubit, walker_qubits[0], ..., walker_qubits[3])
DECctrl(b) == IF b.c = 1 THEN MatWalker(DEC, b) ELSE b :> 1

\* INC.ctrl(coin_qubit, walker_qubits...): |x> to |x+1 mod 16> when the coin is |1>
INCctrl(b) ==
    IF b.c = 1 THEN [b EXCEPT !.w = (b.w + 1) % Pow2(num_qubits)] :> 1 ELSE b :> 1

\* no_INC_at_right_endpoint: the endpoint qubit is flipped when the walker is
\* |1111> and the coin |1>, then the coin is flipped when the endpoint is |1>
no_INC_at_right_endpoint(b) ==
    LET e2 == IF b.w = Pow2(num_qubits) - 1 /\ b.c = 1 THEN 1 - b.e ELSE b.e
    IN  [b EXCEPT !.e = e2, !.c = IF e2 = 1 THEN 1 - b.c ELSE b.c] :> 1

\* no_DEC_at_left_endpoint: the endpoint qubit is flipped when the walker is
\* |0000> and the coin |0>, then the coin is flipped when the endpoint is |1>
no_DEC_at_left_endpoint(b) ==
    LET e2 == IF b.w = 0 /\ b.c = 0 THEN 1 - b.e ELSE b.e
    IN  [b EXCEPT !.e = e2, !.c = IF e2 = 1 THEN 1 - b.c ELSE b.c] :> 1

\* reset_coin_and_endpoint: the coin is flipped back when the endpoint is |1>,
\* then the endpoint qubit is reset to |0>
reset_coin_and_endpoint(b) ==
    [b EXCEPT !.c = IF b.e = 1 THEN 1 - b.c ELSE b.c,
              !.e = 0,
              !.env = Append(b.env, b.e)] :> 1

\* mz over the walker, the coin and the endpoint qubit
mz_all(b) == Bits(b.w) \o <<b.c, b.e>>

\* mz(walker_qubits): the bitstring one shot reports for basis state b
mz(b) == Bits(b.w)

\* check_decrementer_kernel has no mz: a shot reports all of qubits
mz_implicit(b) == Bits(b.w)

\* the histogram after one more shot reported key
AddShot(h, key) ==
    IF key \in DOMAIN h THEN [h EXCEPT ![key] = h[key] + 1] ELSE h @@ (key :> 1)

\* SampleResult.most_probable()
most_probable(h) == CHOOSE k \in DOMAIN h : \A j \in DOMAIN h : h[k] >= h[j]

\* total of the squared amplitude numerators; probabilities are these / 2^hexp
TotalSq(p) == SumOver(DOMAIN p, [b \in DOMAIN p |-> p[b] * p[b]])

\* squared amplitude numerators of the states with walker value w
WalkerSq(p, w) ==
    SumOver(DOMAIN p, [b \in DOMAIN p |-> IF b.w = w THEN p[b] * p[b] ELSE 0])

\* the only basis state of a state that is not a superposition
Only(p) == CHOOSE b \in DOMAIN p : TRUE

----------------------------------------------------------------------------
(* State machines *)

DecIdle ==
    /\ dn = 0 /\ size = 0 /\ dec_matrix = <<>> /\ loop_i = 0
    /\ dpc = "idle" /\ vec = <<>> /\ start = 0 /\ napps = 0

KerIdle ==
    /\ kern = "none" /\ pc = "idle" /\ psi = <<>> /\ hexp = 0
    /\ ops = <<>> /\ in0 = <<>> /\ pre = <<>> /\ counts = <<>> /\ shots = 0

NbIdle == ns = {} /\ runs = <<>> /\ errs = {}

\* def decrementer(num_qubits): size = 2**num_qubits; dec_matrix = np.zeros(..)
DecInit ==
    /\ dn \in 1..MaxQubits
    /\ size = Pow2(dn)
    /\ dec_matrix = Zeros(Pow2(dn))
    /\ loop_i = 0
    /\ dpc = "loop"
    /\ vec = <<>> /\ start = 0 /\ napps = 0
    /\ KerIdle /\ NbIdle

\* one iteration of: for i in range(size): dec_matrix[i, (i + 1) % size] = 1
DecLoop ==
    /\ dpc = "loop" /\ loop_i < size
    /\ dec_matrix' = SetOne(dec_matrix, loop_i, DecCol(loop_i, size))
    /\ loop_i' = loop_i + 1
    /\ UNCHANGED <<dn, size, dpc, vec, start, napps, kerVars, nbVars>>

\* return dec_matrix
DecReturn ==
    /\ dpc = "loop" /\ loop_i = size
    /\ dpc' = "ret"
    /\ UNCHANGED <<dn, size, dec_matrix, loop_i, vec, start, napps, kerVars, nbVars>>

\* the returned matrix is handed a basis state |i>
DecPick ==
    /\ dpc = "ret"
    /\ \E i \in 0..(size - 1) :
          /\ vec' = BasisVec(i, size)
          /\ start' = i
    /\ napps' = 0
    /\ dpc' = "apply"
    /\ UNCHANGED <<dn, size, dec_matrix, loop_i, kerVars, nbVars>>

\* one application of the matrix to the current vector
DecApply ==
    /\ dpc = "apply" /\ napps < size
    /\ vec' = MatVec(dec_matrix, vec)
    /\ napps' = napps + 1
    /\ UNCHANGED <<dn, size, dec_matrix, loop_i, dpc, start, kerVars, nbVars>>

DecNext == DecLoop \/ DecReturn \/ DecPick \/ DecApply

SpecDec == DecInit /\ [][DecNext]_vars

----------------------------------------------------------------------------
(* Claims about decrementer *)

DecBuilt == dpc \in {"ret", "apply"}

IsPermutationMatrix(m, sz) ==
    /\ DOMAIN m = 0..(sz - 1)
    /\ \A r \in 0..(sz - 1) : DOMAIN m[r] = 0..(sz - 1)
    /\ \A r \in 0..(sz - 1) : \A c \in 0..(sz - 1) : m[r][c] \in {0, 1}
    /\ \A r \in 0..(sz - 1) : Cardinality({c \in 0..(sz - 1) : m[r][c] = 1}) = 1
    /\ \A c \in 0..(sz - 1) : Cardinality({r \in 0..(sz - 1) : m[r][c] = 1}) = 1

\* C1: for every num_qubits n in 1..MaxQubits the matrix decrementer returns
\* is 2^n x 2^n, has only entries 0 and 1, and has exactly one 1 in every row
\* and in every column.
C1_PermutationMatrix ==
    DecBuilt => IsPermutationMatrix(dec_matrix, Pow2(dn))

C1_Witness == dpc = "ret" /\ dn = MaxQubits /\ dec_matrix[size - 1][0] = 1

\* C2: applied to the basis column vector e_i the matrix gives
\* e_((i-1) mod 2^n), so index 0 goes to 2^n - 1; k applications take e_i to
\* e_((i-k) mod 2^n), and the start vector comes back after exactly 2^n
\* applications and no fewer.
C2_CyclicDecrement ==
    dpc = "apply" =>
        /\ vec = BasisVec((start + napps * (size - 1)) % size, size)
        /\ (napps = 1 /\ start = 0) => vec = BasisVec(size - 1, size)
        /\ (napps > 0 /\ vec = BasisVec(start, size)) => napps = size

C2_Witness ==
    /\ dpc = "apply" /\ dn = 3 /\ start = 0 /\ napps = size
    /\ vec = BasisVec(0, size)

----------------------------------------------------------------------------
(* Kernels *)

Inputs == {BasisState(w, c, e) : w \in 0..(Pow2(num_qubits) - 1), c \in 0..1, e \in 0..1}

KerStart(k, p, at) ==
    /\ kern = k /\ pc = at /\ psi = p /\ in0 = p
    /\ hexp = 0 /\ ops = <<>> /\ pre = <<>> /\ counts = <<>> /\ shots = 0
    /\ DecIdle /\ NbIdle

\* The notebook's two kernel runs start from fresh qubits.  The walk step
\* ("step": from no_INC_at_right_endpoint on) and its S- block ("sminus")
\* are also run on every basis state of walker and coin.
KerInit ==
    \/ KerStart("check", AllZero, "ck_x")
    \/ KerStart("walk", AllZero, "initial_position")
    \/ \E b \in {i \in Inputs : i.e = 0} : KerStart("step", b :> 1, "guard_r")
    \/ \E b \in Inputs : KerStart("sminus", b :> 1, "x1")

\* the notebook's two sampled runs only
SampleInit ==
    \/ KerStart("check", AllZero, "ck_x")
    \/ KerStart("walk", AllZero, "initial_position")

\* the running kernel's state
Cur == [psi |-> psi, hexp |-> hexp]

\* one operation of a kernel: from position `from` to `to`
Step(from, to, op, s, newpre) ==
    /\ pc = from
    /\ pc' = to
    /\ psi' = s.psi
    /\ hexp' = s.hexp
    /\ ops' = Append(ops, op)
    /\ pre' = newpre
    /\ UNCHANGED <<kern, in0, counts, shots, decVars, nbVars>>

\* check_decrementer_kernel: x(qubits[3])
CkX == Step("ck_x", "ck_dec", "x", Gate(LAMBDA b : XWalker(3, b), Cur), pre)

\* check_decrementer_kernel: DEC(qubits[0], qubits[1], qubits[2], qubits[3])
CkDec == Step("ck_dec", "end", "DEC", Gate(LAMBDA b : MatWalker(DEC, b), Cur), pre)

\* DTQW_one_step: initial_position(walker_qubits)
InitialPosition ==
    Step("initial_position", "h_init", "initial_position",
         initial_position(Cur), pre)

\* DTQW_one_step: h(coin_qubit), the initial coin state
HInit == Step("h_init", "h_coin", "h_init", initial_coin_state(Cur), pre)

\* DTQW_one_step: h(coin_qubit), the coin operation F=H
HCoinOp == Step("h_coin", "guard_r", "h_coin", coin_operation(Cur), pre)

\* DTQW_one_step: no_INC_at_right_endpoint(walker_qubits, coin_qubit, endpoint_qubit)
GuardRight ==
    Step("guard_r", "inc", "no_INC_at_right_endpoint",
         Gate(no_INC_at_right_endpoint, Cur), psi)

\* DTQW_one_step: INC.ctrl(coin_qubit, walker_qubits[0], ..., walker_qubits[3])
IncCtrl == Step("inc", "reset_r", "INC.ctrl", Gate(INCctrl, Cur), pre)

\* DTQW_one_step: reset_coin_and_endpoint(coin_qubit, endpoint_qubit), first call
ResetRight ==
    Step("reset_r", "guard_l", "reset_coin_and_endpoint",
         Gate(reset_coin_and_endpoint, Cur), pre)

\* DTQW_one_step: no_DEC_at_left_endpoint(walker_qubits, coin_qubit, endpoint_qubit)
GuardLeft ==
    Step("guard_l", "x1", "no_DEC_at_left_endpoint",
         Gate(no_DEC_at_left_endpoint, Cur), psi)

\* DTQW_one_step: x(coin_qubit) before DEC.ctrl
XCoinBefore == Step("x1", "dec", "x", Gate(XCoin, Cur), pre)

\* DTQW_one_step: DEC.ctrl(coin_qubit, walker_qubits[0], ..., walker_qubits[3])
DecCtrl == Step("dec", "x2", "DEC.ctrl", Gate(DECctrl, Cur), pre)

\* DTQW_one_step: x(coin_qubit) after DEC.ctrl
XCoinAfter == Step("x2", "reset_l", "x", Gate(XCoin, Cur), pre)

\* DTQW_one_step: reset_coin_and_endpoint(coin_qubit, endpoint_qubit), second call
ResetLeft ==
    Step("reset_l", "mz", "reset_coin_and_endpoint",
         Gate(reset_coin_and_endpoint, Cur), pre)

\* DTQW_one_step: mz(walker_qubits), the end of the kernel
Mz == Step("mz", "end", "mz", Cur, pre)

\* the bitstring a shot of the running kernel reports for basis state b
Reported(b) == IF kern = "check" THEN mz_implicit(b) ELSE mz(b)

\* cudaq.sample(kernel, shots_count=1000): one shot, which reports a basis
\* state of non-zero probability
Shot ==
    /\ pc = "end" /\ kern \in {"check", "walk"}
    /\ shots < shots_count
    /\ \E b \in DOMAIN psi : counts' = AddShot(counts, Reported(b))
    /\ shots' = shots + 1
    /\ UNCHANGED <<kern, pc, psi, hexp, ops, in0, pre, decVars, nbVars>>

KerNext ==
    \/ CkX \/ CkDec
    \/ InitialPosition \/ HInit \/ HCoinOp
    \/ GuardRight \/ IncCtrl \/ ResetRight
    \/ GuardLeft \/ XCoinBefore \/ DecCtrl \/ XCoinAfter \/ ResetLeft
    \/ Mz

Spec == KerInit /\ [][KerNext]_vars

SpecSample == SampleInit /\ [][KerNext \/ Shot]_vars

----------------------------------------------------------------------------
(* Claims about the kernels *)

\* the operations of DTQW_one_step in order
WalkOps ==
    <<"initial_position", "h_init", "h_coin",
      "no_INC_at_right_endpoint", "INC.ctrl", "reset_coin_and_endpoint",
      "no_DEC_at_left_endpoint", "x", "DEC.ctrl", "x", "reset_coin_and_endpoint",
      "mz">>

IsPrefix(s, t) == Len(s) <= Len(t) /\ s = SubSeq(t, 1, Len(s))

\* every basis state of non-zero amplitude satisfies P
Certain(P(_)) == \A b \in DOMAIN psi : P(b)

\* the walker is measured as w with probability exactly 1/2
HalfAt(w) == 2 * WalkerSq(psi, w) = Pow2(hexp)

\* the walker is an equal mixture of exactly the values u and v
EqualOver(u, v) ==
    /\ {b.w : b \in DOMAIN psi} = {u, v}
    /\ HalfAt(u) /\ HalfAt(v)
    /\ \A w \in 0..(Pow2(num_qubits) - 1) : w \notin {u, v} => WalkerSq(psi, w) = 0

\* C3: check_decrementer_kernel prepares |0001> with x(qubits[3]), DEC leaves
\* the register in |0000> with certainty, every shot reports 0000, and after
\* the 1000 shots most_probable() is 0000.
C3_CheckKernelYieldsZero ==
    kern = "check" =>
        /\ pc = "ck_dec" => DOMAIN psi = {BasisState(1, 0, 0)} /\ Bits(1) = <<0, 0, 0, 1>>
        /\ pc = "end" => psi = (BasisState(0, 0, 0) :> 1) /\ hexp = 0
        /\ \A k \in DOMAIN counts : k = <<0, 0, 0, 0>>
        /\ shots = shots_count =>
              /\ counts = (<<0, 0, 0, 0>> :> shots_count)
              /\ most_probable(counts) = <<0, 0, 0, 0>>

C3_Witness ==
    /\ kern = "check" /\ pc = "end" /\ shots = shots_count
    /\ ops = <<"x", "DEC">>
    /\ most_probable(counts) = <<0, 0, 0, 0>>

TotalCount(h) == SumOver(DOMAIN h, h)

\* C5: sampling DTQW_one_step gives a histogram whose keys are bitstrings of
\* length exactly 4 and whose counts add up to the number of shots taken,
\* which is 1000 when sampling has finished.
C5_HistogramShape ==
    kern = "walk" =>
        /\ \A k \in DOMAIN counts : Len(k) = num_qubits /\ k \in [1..num_qubits -> {0, 1}]
        /\ TotalCount(counts) = shots
        /\ shots <= shots_count
        /\ (pc = "end" /\ ~ ENABLED Shot) => TotalCount(counts) = 1000

C5_Witness ==
    /\ kern = "walk" /\ pc = "end" /\ shots = shots_count
    /\ Cardinality(DOMAIN counts) = 2
    /\ TotalCount(counts) = 1000

\* C6: after every operation of the walk step (on the notebook's run and on
\* every basis state of walker and coin) the probabilities of all basis states
\* add up to 1.
C6_TotalProbability ==
    kern \in {"walk", "step", "sminus"} => TotalSq(psi) = Pow2(hexp)

C6_Witness ==
    /\ kern = "walk" /\ pc = "end" /\ hexp = 3 /\ ops = WalkOps
    /\ TotalSq(psi) = 8

\* C8: the S- block x(coin); DEC.ctrl(coin, walker...); x(coin) maps
\* (w, c=0) to ((w-1) mod 16, c=0) and (w, c=1) to (w, c=1); the coin ends as
\* it began and the endpoint qubit is never touched.
C8_SMinus ==
    kern = "sminus" =>
        LET i == Only(in0) IN
        /\ pc \in {"dec", "x2", "reset_l"} => Certain(LAMBDA b : b.e = i.e)
        /\ pc = "reset_l" =>
              psi = ([i EXCEPT !.w = IF i.c = 0 THEN (i.w + 15) % 16 ELSE i.w] :> 1)

C8_Witness ==
    /\ kern = "sminus" /\ pc = "reset_l" /\ ops = <<"x", "DEC.ctrl", "x">>
    /\ Only(in0).w = 0 /\ Only(in0).c = 0 /\ Only(in0).e = 1
    /\ Only(psi).w = 15 /\ Only(psi).c = 0

\* C9: the operations run in the order coin flip, right guard, controlled INC,
\* reset, left guard, controlled DEC, reset, measurement; from every walker
\* basis state, |1111> with coin |1> is not shifted to |0000> (the guard has
\* set the coin to |0>), |0000> with coin |0> is not shifted to |1111> (the
\* guard has set the coin to |1>), and after each reset the coin is what it
\* was before the guard and the endpoint qubit is |0>.
C9_NoWrapAndOrder ==
    /\ kern = "walk" => IsPrefix(ops, WalkOps)
    /\ kern = "step" =>
          LET i == Only(in0)
              b == Only(psi)
              g == Only(pre)
          IN
          /\ IsPrefix(ops, SubSeq(WalkOps, 4, 12))
          /\ Cardinality(DOMAIN psi) = 1
          /\ (pc = "inc" /\ g.w = 15 /\ g.c = 1) => b.c = 0
          /\ (pc = "reset_r" /\ g.w = 15) => b.w = 15
          /\ pc = "guard_l" => b.c = g.c /\ b.e = 0 /\ g = i
          /\ (pc = "x1" /\ g.w = 0 /\ g.c = 0) => b.c = 1
          /\ (pc \in {"x2", "reset_l"} /\ g.w = 0) => b.w = 0
          /\ pc = "mz" => b.c = g.c /\ b.e = 0
          /\ (pc \in {"mz", "end"} /\ i.w = 15 /\ i.c = 1) => b.w # 0
          /\ (pc \in {"mz", "end"} /\ i.w = 0 /\ i.c = 0) => b.w # 15

C9_Witness ==
    /\ kern = "step" /\ pc = "mz"
    /\ Only(in0).w = 0 /\ Only(in0).c = 0
    /\ Only(psi).w = 0 /\ Only(psi).c = 0 /\ Only(psi).e = 0
    /\ Only(psi).env = <<0, 1>>

\* C10: in DTQW_one_step the coin gets two Hadamards in a row from |0>, so it
\* is |0> with certainty when the shifts are applied; the controlled INC never
\* fires and the controlled DEC always fires, the walker goes from
\* (|2>+|3>)/sqrt2 to (|1>+|2>)/sqrt2, and every shot reports 0001 or 0010.
C10_CoinStaysZero ==
    kern = "walk" =>
        /\ pc \in {"guard_r", "inc", "reset_r", "guard_l", "x1"} =>
              Certain(LAMBDA b : b.c = 0 /\ b.e = 0)
        /\ pc \in {"h_init", "h_coin", "guard_r", "inc", "reset_r", "guard_l", "x1", "dec"} =>
              EqualOver(2, 3)
        /\ pc \in {"x2", "reset_l", "mz", "end"} => EqualOver(1, 2)
        /\ \A k \in DOMAIN counts : k \in {<<0, 0, 0, 1>>, <<0, 0, 1, 0>>}

C10_Witness ==
    /\ kern = "walk" /\ pc = "end" /\ shots = shots_count
    /\ DOMAIN counts = {<<0, 0, 0, 1>>, <<0, 0, 1, 0>>}
    /\ counts[<<0, 0, 0, 1>>] = 500

----------------------------------------------------------------------------
(* The notebook session *)

\* A statement of a cell: the names it reads when it runs and the names it
\* binds.  A kernel's body is read when the kernel is sampled, a function's
\* body when it is called.
Stmt(line, reads, binds) == [line |-> line, reads |-> reads, binds |-> binds]

\* the licence header: comments only
Cell1 == <<>>

\* EXERCISE 1: @cudaq.kernel def initial_position
Cell2 == << Stmt(42, {"cudaq"}, {"initial_position"}) >>

\* EXERCISE 2
Cell3 ==
    << Stmt(73, {}, {"decrementer"}),
       Stmt(83, {"cudaq", "decrementer", "num_qubits", "np"}, {"DEC"}),
       Stmt(88, {"cudaq"}, {"check_decrementer_kernel"}),
       Stmt(96, {"cudaq", "check_decrementer_kernel", "DEC"}, {"result"}),
       Stmt(97, {"result"}, {}) >>

\* EXERCISE 3
Cell4 ==
    << Stmt(116, {}, {"num_qubits"}),
       Stmt(118, {"cudaq"}, {"DTQW_one_step"}),
       Stmt(170, {"cudaq", "DTQW_one_step", "num_qubits", "initial_position",
                  "no_INC_at_right_endpoint", "INC", "reset_coin_and_endpoint",
                  "no_DEC_at_left_endpoint", "DEC"}, {"result"}),
       Stmt(171, {"result"}, {}),
       Stmt(172, {"plot_results", "result", "num_qubits"}, {}) >>

Cells == <<Cell1, Cell2, Cell3, Cell4>>

\* the names some cell binds
Bound == UNION {UNION {Cells[c][k].binds : k \in DOMAIN Cells[c]} : c \in DOMAIN Cells}

\* the names the cells read and never bind: the session supplies them
Ambient ==
    UNION {UNION {Cells[c][k].reads : k \in DOMAIN Cells[c]} : c \in DOMAIN Cells} \ Bound

\* Statements k.. of cell c run on session s = [ns, errs]: a statement that
\* reads an unbound name raises NameError, which ends the cell.
RECURSIVE Exec(_, _, _)
Exec(c, k, s) ==
    IF k > Len(Cells[c]) THEN s
    ELSE LET st == Cells[c][k]
             missing == st.reads \ s.ns
         IN  IF missing # {}
             THEN [s EXCEPT !.errs = @ \cup
                      {[cell |-> c, line |-> st.line, name |-> m] : m \in missing}]
             ELSE Exec(c, k + 1, [s EXCEPT !.ns = @ \cup st.binds])

NbInit ==
    /\ ns = Ambient
    /\ runs = <<>>
    /\ errs = {}
    /\ DecIdle /\ KerIdle

\* one cell is executed
RunCell ==
    /\ Len(runs) < MaxRuns
    /\ \E c \in DOMAIN Cells :
          LET s == Exec(c, 1, [ns |-> ns, errs |-> errs]) IN
          /\ ns' = s.ns
          /\ errs' = s.errs
          /\ runs' = Append(runs, c)
    /\ UNCHANGED <<decVars, kerVars>>

SpecNotebook == NbInit /\ [][RunCell]_vars

\* the cells, executed once each from top to bottom
TopToBottom == <<1, 2, 3, 4>>

\* C7: when the cells are executed once each in top-to-bottom order, no cell
\* reads a name the notebook binds (num_qubits, DEC, initial_position) before
\* it is bound, so no cell fails with an undefined name.
C7_NoUndefinedName ==
    IsPrefix(runs, TopToBottom) => errs = {}

====
